---- MODULE Spec2Model ----
(***************************************************************************)
(* Off-ramp backend: three independent variants of the same service.       *)
(*                                                                         *)
(*   Spec        services/api/main.py        (SQLAlchemy: prices, orders,  *)
(*                                            webhook_events)              *)
(*   SpecOfframp services/api/routers/offramp.py (sqlite: otc_listings,    *)
(*                                            sales)                       *)
(*   SpecIpn     services/api/routers/nowpayments.py (IPN handler)         *)
(*                                                                         *)
(* NOWPayments is the environment: every answer it can give (transport     *)
(* error, any HTTP status, any body shape) is a nondeterministic choice.   *)
(* The database is the environment too at one place: the commit that       *)
(* follows an accepted payout request may fail (spec section 1: "call the  *)
(* provider and only persist afterward").                                  *)
(*                                                                         *)
(* Floats are abstracted to small naturals, timestamps and the free-text   *)
(* notes column (a log of provider answers) are left out.                  *)
(***************************************************************************)
EXTENDS Integers, FiniteSets, Sequences, TLC

(***************************************************************************)
(* Bounds of the exploration.                                              *)
(***************************************************************************)
MaxOrders == 2
MaxCalls == 3
MaxOffCalls == 4
MaxInFlight == 2
MaxIpnCalls == 2
MaxBankCalls == 2
MaxOtcCalls == 3
MaxSigLen == 3
MaxDeliveries == 2

\* Python's None in a string-valued column or field.
None == "None"
\* No payout reference: None or the empty string (both falsy in the code).
NoRef == 0

(***************************************************************************)
(* str.upper() on the strings the model uses.                              *)
(***************************************************************************)
Upper(s) ==
    CASE s = "neno" -> "NENO"
      [] s = "Neno" -> "NENO"
      [] s = "crypto" -> "CRYPTO"
      [] s = "sepa" -> "SEPA"
      [] s = "usdt" -> "USDT"
      [] s = "trc20" -> "TRC20"
      [] OTHER -> s

(***************************************************************************)
(* str.lower() on the strings the model uses.                              *)
(***************************************************************************)
Lower(s) ==
    CASE s = "FINISHED" -> "finished"
      [] s = "Finished" -> "finished"
      [] s = "FAILED" -> "failed"
      [] OTHER -> s

\* Python truthiness of an Optional[str].
Truthy(x) == x # None /\ x # ""

\* Python's `a or b`.
Or(a, b) == IF Truthy(a) THEN a ELSE b

SymbolsIn == {"neno", "NENO", "USDT"}
Tokens == {Upper(s) : s \in SymbolsIn}
Wallets == {"w1", "w2"}
PricesIn == {0, 2}
AmountsIn == {<<>>, <<3>>}             \* Optional[float]: <<>> is None
OrderIds == 1..MaxOrders

(***************************************************************************)
(* NOWPayments as seen by the callers: the transport raises (raised, no    *)
(* status) or an HTTP status comes back with a JSON body of one of the     *)
(* shapes the callers look into.                                           *)
(***************************************************************************)
HttpStatuses == {200, 201, 202, 404, 500}
BodyShapes == {"id", "withdrawals", "wd_nondict", "empty"}
NpAnswers ==
    {[raised |-> TRUE, status |-> 0, shape |-> "empty"]}
    \cup [raised : {FALSE}, status : HttpStatuses, shape : BodyShapes]

\* The provider has created the payout exactly when it answers 2xx.
ProviderAccepted(ans) == ~ans.raised /\ ans.status \div 100 = 2

VARIABLES
    prices,            \* main.py table prices: upper-cased token -> row
    orders,            \* main.py table orders: sequence of rows, id = index
    webhookEvents,     \* main.py table webhook_events: set of rows
    npRequests,        \* POST /v1/payouts requests main.py has sent
    npListingPayouts,  \* payouts NOWPayments accepted, per external_id listing_<token>
    npOrderPayouts,    \* payouts NOWPayments accepted, per external_id order_<id>
    npNextId,          \* the id NOWPayments gives to the next payout
    mainPc,            \* position of the request main.py is handling
    mainLast,          \* the request main.py handled last, and its answer
    delivered,         \* history: signature and body hash of every webhook delivery
    triggered,         \* history: orders whose trigger-payout was answered 200
    nCalls             \* requests main.py has taken so far (bounded by MaxCalls)

mainVars == <<prices, orders, webhookEvents, npRequests, npListingPayouts,
              npOrderPayouts, npNextId, mainPc, mainLast, delivered, triggered,
              nCalls>>

VARIABLES
    otc_listings,      \* offramp.py table otc_listings: upper-cased token -> row
    sales,             \* offramp.py table sales: sequence of rows, id = index
    offPc,             \* position of each trigger-payout request in flight
    offLast,           \* the request offramp.py answered last, and its answer
    offRequests,       \* POST /payout and /payouts requests offramp.py has sent
    offPayouts,        \* payouts NOWPayments accepted, per sale
    offNextId,         \* the id NOWPayments gives to the next payout
    offCalls           \* requests offramp.py has taken so far (bounded)

offVars == <<otc_listings, sales, offPc, offLast, offRequests, offPayouts,
             offNextId, offCalls>>

VARIABLES
    ipnSecret,         \* nowpayments.py: the configured IPN secret, "" when none
    ipnOrders,         \* the order store behind _get_order / _update_order
    ipnGets,           \* history: calls of _get_order so far
    ipnLast,           \* the IPN request handled last, and its answer
    ipnCalls           \* IPN requests handled so far (bounded)

ipnVars == <<ipnSecret, ipnOrders, ipnGets, ipnLast, ipnCalls>>

VARIABLES
    bankPc,            \* services/nowpayments.py: position of the create_bank_payout call
    bankLog,           \* history: the finished create_bank_payout calls
    listingsMem,       \* otc.py: _LISTINGS_MEM, upper-cased token -> row
    otcLast,           \* the request otc.py answered last, and its answer
    otcCalls           \* requests otc.py has taken so far (bounded)

VARIABLES
    cmpCall            \* the signature comparison made last, its result and its cost

libVars == <<bankPc, bankLog, listingsMem, otcLast, otcCalls, cmpCall>>

VARIABLES
    inbox,             \* webhook requests received by main.py and not handled yet
    arrived            \* every webhook request that ever arrived at main.py, with the
                       \* orders whose trigger-payout had succeeded by then

netVars == <<inbox, arrived>>

vars == <<mainVars, offVars, ipnVars, libVars, netVars>>

Idle == [op |-> "idle"]

\* Upsert with a fault: an existing row is kept (insert if absent).
InsertIfAbsent(table, token, row) ==
    [t \in DOMAIN table \cup {token} |-> IF t \in DOMAIN table THEN table[t] ELSE row]

\* The listing tables are keyed on the token: _LISTINGS_MEM[token] = row (otc.py),
\* INSERT ... ON CONFLICT(token_symbol) DO UPDATE (offramp.py), query-or-new and
\* commit (main.py).
Upsert(table, token, row) ==
    [t \in DOMAIN table \cup {token} |-> IF t = token THEN row ELSE table[t]]

MainInit ==
    /\ prices = <<>>
    /\ orders = <<>>
    /\ webhookEvents = {}
    /\ npRequests = 0
    /\ npListingPayouts = [t \in Tokens |-> 0]
    /\ npOrderPayouts = [o \in OrderIds |-> 0]
    /\ npNextId = 1
    /\ mainPc = Idle
    /\ mainLast = [op |-> "none"]
    /\ delivered = {}
    /\ triggered = {}
    /\ nCalls = 0

(***************************************************************************)
(* main.py: payout reference taken from the provider's answer.             *)
(* "id" -> str(np_resp["id"]); "withdrawals" -> the first withdrawal's id; *)
(* otherwise None.  ("wd_nondict" raises AttributeError before this value  *)
(* is used.)                                                               *)
(***************************************************************************)
PayoutRef(ans, id) ==
    IF ans.shape \in {"id", "withdrawals"} THEN id ELSE NoRef

\* CreatePayoutRaises with a fault: the HTTP status is not looked at.
CreatePayoutRaisesOnNetwork(ans) == ans.raised

\* nowpayments_create_payout raises HTTPException(502): transport error or
\* HTTP status >= 400.
CreatePayoutRaises(ans) == ans.raised \/ ans.status >= 400

(***************************************************************************)
(* auto_payout_on_listing: the idempotency guard and the amount guard.     *)
(***************************************************************************)
AutoPayoutSkips(row) ==
    \/ row.auto_payout_done # 0
    \/ row.price_eur * row.available_amount <= 0

\* AutoPayoutCalled with a fault: the listing's stored wallet counts too.
AutoPayoutCalledForStored(wallet, row) == Truthy(row.wallet_address)

\* set_price: `if payload.wallet_address:` guards auto_payout_on_listing.
AutoPayoutCalled(wallet, row) == Truthy(wallet)

NewPrice ==
    [price_eur |-> 0, available_amount |-> 0, wallet_address |-> None,
     auto_payout_done |-> 0, auto_payout_txid |-> NoRef]

(***************************************************************************)
(* What the environment decides during auto_payout_on_listing and during   *)
(* trigger_payout: whether the EUR->crypto conversion returned a rate,     *)
(* NOWPayments' answer to POST /v1/payouts, and whether the db.commit()    *)
(* after an accepted payout succeeded.  Only the choices the code gets to  *)
(* are enumerated.                                                         *)
(***************************************************************************)
NoAnswer == [raised |-> TRUE, status |-> 0, shape |-> "empty"]

\* main.py tells answers apart by `status >= 400` and by the body's shape.
MainAnswers ==
    {NoAnswer, [raised |-> FALSE, status |-> 500, shape |-> "empty"]}
    \cup [raised : {FALSE}, status : {200}, shape : BodyShapes]

PayoutEnvs ==
    {[convOk |-> FALSE, ans |-> NoAnswer, commitOk |-> TRUE]}
    \cup {[convOk |-> TRUE, ans |-> a, commitOk |-> TRUE] : a \in MainAnswers}
    \cup {[convOk |-> TRUE, ans |-> a, commitOk |-> FALSE] :
            a \in {x \in MainAnswers : ~CreatePayoutRaises(x) /\ x.shape # "wd_nondict"}}

NoEnv == [convOk |-> FALSE, ans |-> NoAnswer, commitOk |-> TRUE]

(***************************************************************************)
(* POST /otc/set-price (main.py), with auto_payout_on_listing inlined.     *)
(*   amount: <<>> (absent) or <<n>>;  wallet: None, "" or an address       *)
(***************************************************************************)
SetPrice(sym, price_eur, amount, wallet) ==
    LET token == Upper(sym)
        old == IF token \in DOMAIN prices THEN prices[token] ELSE NewPrice
        row == [old EXCEPT !.price_eur = price_eur,
                           !.available_amount = IF amount = <<>> THEN 0 ELSE amount[1],
                           !.wallet_address = Or(wallet, old.wallet_address)]
        saved == Upsert(prices, token, row)
        attempt == AutoPayoutCalled(wallet, row) /\ ~AutoPayoutSkips(row)
    IN  /\ mainPc = Idle
        /\ nCalls < MaxCalls
        /\ nCalls' = nCalls + 1
        /\ \E env \in IF attempt THEN PayoutEnvs ELSE {NoEnv} :
            LET sent == attempt /\ env.convOk
                accepted == sent /\ ~CreatePayoutRaises(env.ans)
                parsed == accepted /\ env.ans.shape # "wd_nondict"
                done == parsed /\ env.commitOk
                ref == PayoutRef(env.ans, npNextId)
            IN  /\ prices' = IF done
                             THEN [saved EXCEPT ![token].auto_payout_done = 1,
                                                ![token].auto_payout_txid = ref]
                             ELSE saved
                /\ npRequests' = IF sent THEN npRequests + 1 ELSE npRequests
                /\ npListingPayouts' =
                      IF sent /\ ProviderAccepted(env.ans)
                      THEN [npListingPayouts EXCEPT ![token] = @ + 1]
                      ELSE npListingPayouts
                /\ npNextId' = IF sent /\ ProviderAccepted(env.ans)
                               THEN npNextId + 1 ELSE npNextId
                /\ mainLast' = [op |-> "set_price", token |-> token, sent |-> sent,
                                wallet |-> wallet, sym |-> sym,
                                price_eur |-> price_eur, amount |-> amount,
                                code |-> IF attempt /\ ~accepted THEN 502 ELSE 200]
        /\ UNCHANGED <<orders, webhookEvents, npOrderPayouts, mainPc, delivered,
                       triggered, offVars, ipnVars, libVars, netVars>>

(***************************************************************************)
(* POST /offramp/create-order (main.py).  The columns the payout and the   *)
(* webhook read are kept: payout_channel, wallet_address, crypto_asset,    *)
(* crypto_network, status, payout_txid.                                    *)
(***************************************************************************)
OrderInputs ==
    {[payout_channel |-> "crypto", wallet_address |-> "w1",
      crypto_asset |-> "usdt", crypto_network |-> "trc20"],
     [payout_channel |-> "SEPA", wallet_address |-> None,
      crypto_asset |-> None, crypto_network |-> None]}

CreateOrder(payload) ==
    LET order == [payout_channel |-> Upper(payload.payout_channel),
                  wallet_address |-> payload.wallet_address,
                  crypto_asset |-> Upper(Or(payload.crypto_asset, "")),
                  crypto_network |-> Upper(Or(payload.crypto_network, "")),
                  status |-> "created",
                  payout_txid |-> NoRef]
    IN  /\ mainPc = Idle
        /\ nCalls < MaxCalls
        /\ Len(orders) < MaxOrders
        /\ nCalls' = nCalls + 1
        /\ orders' = Append(orders, order)
        /\ mainLast' = [op |-> "create_order", oid |-> Len(orders) + 1, code |-> 200]
        /\ UNCHANGED <<prices, webhookEvents, npRequests, npListingPayouts,
                       npOrderPayouts, npNextId, mainPc, delivered, triggered,
                       offVars, ipnVars, libVars, netVars>>

(***************************************************************************)
(* POST /offramp/trigger-payout/{order_id} (main.py), first part: from the *)
(* lookup of the order to the answer of NOWPayments.  The order object is  *)
(* changed in the session only; nothing is committed here.                 *)
(***************************************************************************)
PayoutInputs ==
    [method : {"", "crypto"},
     dest : {[wallet_address |-> None, crypto_asset |-> None, crypto_network |-> None],
             [wallet_address |-> "w2", crypto_asset |-> "usdt", crypto_network |-> "trc20"]},
     has_amount : BOOLEAN]

TriggerPayout(oid, payload) ==
    /\ mainPc = Idle
    /\ nCalls < MaxCalls
    /\ nCalls' = nCalls + 1
    /\ IF oid \notin DOMAIN orders
       THEN /\ mainLast' = [op |-> "trigger_payout", oid |-> oid, code |-> 404]
            /\ UNCHANGED <<npRequests, npOrderPayouts, npNextId, mainPc>>
       ELSE LET o == orders[oid]
                wallet == Or(payload.dest.wallet_address, o.wallet_address)
                asset == Upper(Or(payload.dest.crypto_asset, Or(o.crypto_asset, "")))
                network == Upper(Or(payload.dest.crypto_network, Or(o.crypto_network, "")))
                valid == /\ ~(Upper(payload.method) # "CRYPTO" /\ o.payout_channel # "CRYPTO")
                         /\ Truthy(wallet) /\ Truthy(asset) /\ Truthy(network)
            IN  \E env \in IF valid THEN PayoutEnvs ELSE {NoEnv} :
                 LET sent == valid /\ (payload.has_amount \/ env.convOk)
                     accepted == sent /\ ~CreatePayoutRaises(env.ans)
                     parsed == accepted /\ env.ans.shape # "wd_nondict"
                 IN  /\ (valid /\ payload.has_amount) => env.convOk
                     /\ npRequests' = IF sent THEN npRequests + 1 ELSE npRequests
                     /\ npOrderPayouts' =
                           IF sent /\ ProviderAccepted(env.ans)
                           THEN [npOrderPayouts EXCEPT ![oid] = @ + 1]
                           ELSE npOrderPayouts
                     /\ npNextId' = IF sent /\ ProviderAccepted(env.ans)
                                    THEN npNextId + 1 ELSE npNextId
                     /\ IF parsed
                        THEN /\ mainPc' = [op |-> "trigger_commit", oid |-> oid,
                                           wallet_address |-> wallet,
                                           crypto_asset |-> asset,
                                           crypto_network |-> network,
                                           payout_ref |-> PayoutRef(env.ans, npNextId),
                                           commitOk |-> env.commitOk]
                             /\ mainLast' = [op |-> "trigger_payout", oid |-> oid,
                                             code |-> 0]
                        ELSE /\ mainPc' = Idle
                             /\ mainLast' = [op |-> "trigger_payout", oid |-> oid,
                                             code |-> IF ~valid THEN 422
                                                      ELSE IF accepted THEN 500
                                                      ELSE 502]
    /\ UNCHANGED <<prices, orders, webhookEvents, npListingPayouts, delivered,
                   triggered, offVars, ipnVars, libVars, netVars>>

(***************************************************************************)
(* trigger_payout (main.py), second part: payout_txid and status are set   *)
(* on the order and db.commit() writes the session.  When the commit       *)
(* raises, the request ends in a 500 and the session is discarded.         *)
(***************************************************************************)
\* QueuedOrder with a fault: the status name of the offramp.py variant.
QueuedOrderPending(o, ctx) ==
    [o EXCEPT !.wallet_address = ctx.wallet_address,
              !.crypto_asset = ctx.crypto_asset,
              !.crypto_network = ctx.crypto_network,
              !.payout_txid = IF ctx.payout_ref # NoRef THEN ctx.payout_ref ELSE @,
              !.status = "payout_pending"]

QueuedOrder(o, ctx) ==
    [o EXCEPT !.wallet_address = ctx.wallet_address,
              !.crypto_asset = ctx.crypto_asset,
              !.crypto_network = ctx.crypto_network,
              !.payout_txid = IF ctx.payout_ref # NoRef THEN ctx.payout_ref ELSE @,
              !.status = "queued"]

\* OrdersAfterCommit with a fault: the order row is written although the
\* commit raised.
OrdersAfterLostCommit(ctx) ==
    [orders EXCEPT ![ctx.oid] = QueuedOrder(@, ctx)]

OrdersAfterCommit(ctx) ==
    IF ctx.commitOk
    THEN [orders EXCEPT ![ctx.oid] = QueuedOrder(@, ctx)]
    ELSE orders

TriggerCommit ==
    /\ mainPc.op = "trigger_commit"
    /\ mainPc' = Idle
    /\ orders' = OrdersAfterCommit(mainPc)
    /\ triggered' = IF mainPc.commitOk THEN triggered \cup {mainPc.oid} ELSE triggered
    /\ mainLast' = [op |-> "trigger_payout", oid |-> mainPc.oid,
                    code |-> IF mainPc.commitOk THEN 200 ELSE 500,
                    committed |-> mainPc.commitOk]
    /\ UNCHANGED <<prices, webhookEvents, npRequests, npListingPayouts,
                   npOrderPayouts, npNextId, delivered, nCalls, offVars, ipnVars, libVars,
                                        netVars>>

(***************************************************************************)
(* Webhook requests.  The raw body is the JSON object it parses to; a      *)
(* signature header is <<>> (empty) or <<d>> with d a hex digest.  Digests *)
(* are symbolic: two digests are equal exactly when algorithm, key and     *)
(* message are (no collisions, no forgery without the key); `upper` tells  *)
(* whether the hex string was sent in upper case.                          *)
(***************************************************************************)
NP_IPN_SECRET == "demo_secret"

HmacHex(alg, key, raw) == [alg |-> alg, key |-> key, msg |-> raw, upper |-> FALSE]

Sha256Hex(raw) == [alg |-> "sha256", msg |-> raw]

\* str.lower() / str.upper() of a hex string.
LowerHex(d) == [d EXCEPT !.upper = FALSE]
UpperHex(d) == [d EXCEPT !.upper = TRUE]

\* hmac.compare_digest on two hex strings.
CompareDigest(a, b) == a = b

\* VerifyNowpaymentsSignature with a fault: any header that is not empty
\* passes.
VerifyAnySignature(raw, signature) == signature # <<>>

(***************************************************************************)
(* verify_nowpayments_signature (main.py).                                 *)
(***************************************************************************)
VerifyNowpaymentsSignature(raw, signature) ==
    IF signature = <<>>
    THEN FALSE
    ELSE CompareDigest(LowerHex(HmacHex("sha512", NP_IPN_SECRET, raw)),
                       LowerHex(signature[1]))

\* IsDuplicate with a fault: one composite constraint over (signature,
\* body_hash) instead of the two constraints.
IsDuplicateBoth(events, signature, body_hash) ==
    \E e \in events : e.signature = signature /\ e.body_hash = body_hash

(***************************************************************************)
(* The insert into webhook_events fails (IntegrityError) when a row with   *)
(* the same (provider, signature) or the same (provider, body_hash) is     *)
(* stored; provider is always "nowpayments".                               *)
(***************************************************************************)
IsDuplicate(events, signature, body_hash) ==
    \E e \in events : e.signature = signature \/ e.body_hash = body_hash

\* external_id "order_<n>" -> n; anything else -> 0 (None).
WebhookOrderId(raw) == IF raw.ext_kind = "order" THEN raw.ext_oid ELSE 0

\* OrderAfterWebhook with a fault: the provider's status is copied while the
\* payout is in progress.
OrderAfterWebhookCopied(o, status, txid) ==
    IF status = "finished"
    THEN [o EXCEPT !.status = "completed",
                   !.payout_txid = IF txid # NoRef THEN txid ELSE @]
    ELSE IF status \in {"processing", "pending", "confirming"}
    THEN [o EXCEPT !.status = status]
    ELSE IF status \in {"failed", "canceled"}
    THEN [o EXCEPT !.status = "failed"]
    ELSE o

\* OrderAfterWebhook with a transition guard: 'completed' and 'failed' are
\* terminal.
OrderAfterWebhookGuarded(o, status, txid) ==
    IF o.status \in {"completed", "failed"}
    THEN o
    ELSE IF status = "finished"
    THEN [o EXCEPT !.status = "completed",
                   !.payout_txid = IF txid # NoRef THEN txid ELSE @]
    ELSE IF status \in {"processing", "pending", "confirming"}
    THEN [o EXCEPT !.status = "queued"]
    ELSE IF status \in {"failed", "canceled"}
    THEN [o EXCEPT !.status = "failed"]
    ELSE o

(***************************************************************************)
(* nowpayments_webhook: what a webhook with `status` and `txid` does to    *)
(* the order it names, and to the listing it names.                        *)
(***************************************************************************)
OrderAfterWebhook(o, status, txid) ==
    IF status = "finished"
    THEN [o EXCEPT !.status = "completed",
                   !.payout_txid = IF txid # NoRef THEN txid ELSE @]
    ELSE IF status \in {"processing", "pending", "confirming"}
    THEN [o EXCEPT !.status = "queued"]
    ELSE IF status \in {"failed", "canceled"}
    THEN [o EXCEPT !.status = "failed"]
    ELSE o

PriceAfterWebhook(row, status, txid) ==
    IF status = "finished"
    THEN [row EXCEPT !.auto_payout_done = 1,
                     !.auto_payout_txid = IF txid # NoRef THEN txid ELSE @]
    ELSE row

(***************************************************************************)
(* POST /webhooks/nowpayments (main.py).                                   *)
(***************************************************************************)
NowpaymentsWebhook(raw, sig) ==
    LET body_hash == Sha256Hex(raw)
        dup == IsDuplicate(webhookEvents, sig, body_hash)
        verified == VerifyNowpaymentsSignature(raw, sig)
        oid == WebhookOrderId(raw)
        symbol == Upper(raw.ext_sym)
        note == IF dup THEN "duplicate"
                ELSE IF ~verified THEN "401"
                ELSE IF oid # 0
                     THEN IF oid \in DOMAIN orders THEN "order" ELSE "order not found"
                ELSE IF raw.ext_kind = "listing" /\ symbol \in DOMAIN prices
                     THEN "listing"
                ELSE "ignored"
    IN  /\ mainPc = Idle
        /\ webhookEvents' =
              IF dup THEN webhookEvents
              ELSE webhookEvents \cup {[signature |-> sig, body_hash |-> body_hash]}
        /\ orders' = IF note = "order"
                     THEN [orders EXCEPT ![oid] = OrderAfterWebhook(@, raw.status, raw.txid)]
                     ELSE orders
        /\ prices' = IF note = "listing"
                     THEN [prices EXCEPT ![symbol] = PriceAfterWebhook(@, raw.status, raw.txid)]
                     ELSE prices
        /\ delivered' = delivered \cup {[signature |-> sig, body_hash |-> body_hash]}
        /\ mainLast' = [op |-> "webhook", raw |-> raw, sig |-> sig, note |-> note]
        /\ UNCHANGED <<npRequests, npListingPayouts, npOrderPayouts, npNextId,
                       mainPc, triggered, offVars, ipnVars, libVars>>

\* POST /webhooks/nowpayments, received and handled in one step.
Webhook(raw, sig) ==
    /\ nCalls < MaxCalls
    /\ nCalls' = nCalls + 1
    /\ NowpaymentsWebhook(raw, sig)
    /\ UNCHANGED netVars

(***************************************************************************)
(* POST /webhooks/nowpayments in two steps.  The handler is a coroutine    *)
(* that first awaits the body of the request: Deliver is the request       *)
(* arriving, HandleDelivered is the rest of the handler running on it.     *)
(* At most MaxDeliveries requests arrive, each of them once.               *)
(***************************************************************************)
Deliver(req) ==
    /\ \A a \in arrived : a.req # req
    /\ Cardinality(arrived) < MaxDeliveries
    /\ arrived' = arrived \cup {[req |-> req, paid |-> triggered]}
    /\ inbox' = inbox \cup {req}
    /\ UNCHANGED <<mainVars, offVars, ipnVars, libVars>>

HandleDelivered(req) ==
    /\ req \in inbox
    /\ inbox' = inbox \ {req}
    /\ NowpaymentsWebhook(req[1], req[2])
    /\ UNCHANGED <<nCalls, arrived>>

(***************************************************************************)
(* The webhook requests delivered.  A request is <<raw body, signature>>.  *)
(* ProviderSig is the signature NOWPayments sends; the other signatures    *)
(* are an empty header, the same digest in upper case, a digest made with  *)
(* another key, and the provider's digest of another body.                 *)
(***************************************************************************)
WebhookStatuses ==
    {"finished", "processing", "pending", "confirming", "failed", "canceled", "waiting"}

OrderBody(status, txid, oid) ==
    [status |-> status, txid |-> txid, ext_kind |-> "order", ext_oid |-> oid,
     ext_sym |-> ""]

ListingBody(status, txid, sym) ==
    [status |-> status, txid |-> txid, ext_kind |-> "listing", ext_oid |-> 0,
     ext_sym |-> sym]

OtherBody ==
    [status |-> "finished", txid |-> NoRef, ext_kind |-> "none", ext_oid |-> 0,
     ext_sym |-> ""]

ProviderSig(raw) == <<HmacHex("sha512", NP_IPN_SECRET, raw)>>

SignaturesFor(raw) ==
    {<<>>,
     ProviderSig(raw),
     <<UpperHex(HmacHex("sha512", NP_IPN_SECRET, raw))>>,
     <<HmacHex("sha512", "guess", raw)>>,
     ProviderSig(OtherBody)}

\* Signed status reports about the orders, as NOWPayments sends them.
LifecycleWebhooks ==
    {<<OrderBody(st, IF st = "finished" THEN 9 ELSE NoRef, oid),
       ProviderSig(OrderBody(st, IF st = "finished" THEN 9 ELSE NoRef, oid))>> :
        st \in WebhookStatuses, oid \in 1..MaxOrders}

\* Reports about order 1, a listing or nothing, under every kind of signature.
SignatureWebhooks ==
    UNION {{<<raw, sig>> : sig \in SignaturesFor(raw)} :
             raw \in {OrderBody("finished", 9, 1), OrderBody("failed", NoRef, 1),
                      ListingBody("finished", 9, "neno"), OtherBody}}

(***************************************************************************)
(* services/api/routers/offramp.py.  The handlers are coroutines: a        *)
(* handler runs alone from one await to the next, and the only awaits are  *)
(* the two POSTs of _call_nowpayments_payout.  Slots 1..MaxInFlight hold   *)
(* the trigger-payout requests that wait for NOWPayments.                  *)
(***************************************************************************)
Slots == 1..MaxInFlight

OffInit ==
    /\ otc_listings = <<>>
    /\ sales = <<>>
    /\ offPc = [r \in Slots |-> Idle]
    /\ offLast = [op |-> "none"]
    /\ offRequests = 0
    /\ offPayouts = [o \in OrderIds |-> 0]
    /\ offNextId = 1
    /\ offCalls = 0

\* POST /otc/set-price (offramp.py): INSERT ... ON CONFLICT(token_symbol) DO UPDATE.
OffSetPrice(sym, price_eur, available_amount) ==
    LET token == Upper(sym)
        row == [price_eur |-> price_eur, available_amount |-> available_amount]
    IN  /\ offCalls < MaxOffCalls
        /\ offCalls' = offCalls + 1
        /\ otc_listings' = Upsert(otc_listings, token, row)
        /\ offLast' = [op |-> "set_price", sym |-> sym, price_eur |-> price_eur,
                       available_amount |-> available_amount, token |-> token,
                       code |-> 200]
        /\ UNCHANGED <<sales, offPc, offRequests, offPayouts, offNextId, mainVars, ipnVars, libVars,
                                        netVars>>

\* OffListingFound with a fault: the symbol is looked up as it was sent.
OffListingFoundExact(sym) == sym \in DOMAIN otc_listings

\* create_order: SELECT ... FROM otc_listings WHERE token_symbol = upper(symbol).
OffListingFound(sym) == Upper(sym) \in DOMAIN otc_listings

\* POST /offramp/create-order (offramp.py).
OffCreateOrder(sym, iban, beneficiary_name) ==
    LET token == Upper(sym)
        found == OffListingFound(sym)
        sale == [token_symbol |-> token, iban |-> iban,
                 beneficiary_name |-> beneficiary_name,
                 status |-> "created", nowpayments_payout_id |-> NoRef]
    IN  /\ offCalls < MaxOffCalls
        /\ found => Len(sales) < MaxOrders
        /\ offCalls' = offCalls + 1
        /\ sales' = IF found THEN Append(sales, sale) ELSE sales
        /\ offLast' = IF found
                      THEN [op |-> "create_order", sym |-> sym, oid |-> Len(sales) + 1,
                            code |-> 200]
                      ELSE [op |-> "create_order", sym |-> sym, oid |-> 0, code |-> 404]
        /\ UNCHANGED <<otc_listings, offPc, offRequests, offPayouts, offNextId,
                       mainVars, ipnVars, libVars, netVars>>

\* PayoutDue with a fault: only a completed sale is exempt.
PayoutDueUnlessCompleted(sale) == sale.status # "completed"

\* trigger_payout, "idempotenza": only a sale in 'created' or 'failed' is paid out.
PayoutDue(sale) == sale.status \in {"created", "failed"}

\* PayoutOk with a fault: 201 is not taken for success.
PayoutOkOn200(ans) == ~ans.raised /\ ans.status = 200

\* _call_nowpayments_payout: an answer counts as success on 200 or 201 only.
PayoutOk(ans) == ~ans.raised /\ ans.status \in {200, 201}

(***************************************************************************)
(* trigger_payout: payout_id = res.get("payout_id") or res.get("id"), or   *)
(* the id of the first withdrawal when that is a dict; otherwise None.     *)
(***************************************************************************)
OffPayoutId(ans, id) ==
    IF ans.shape \in {"id", "withdrawals"} THEN id ELSE NoRef

(***************************************************************************)
(* POST /offramp/trigger-payout/{order_id} (offramp.py), up to the first   *)
(* await: lookup, idempotency check, field check, POST /payout sent.       *)
(***************************************************************************)
OffTrigger(r, oid) ==
    /\ offPc[r] = Idle
    /\ offCalls < MaxOffCalls
    /\ offCalls' = offCalls + 1
    /\ IF oid \notin DOMAIN sales
       THEN /\ offLast' = [op |-> "trigger_payout", oid |-> oid, code |-> 404,
                           body |-> "not found", ans |-> NoAnswer]
            /\ UNCHANGED <<offPc, offRequests>>
       ELSE IF ~PayoutDue(sales[oid])
       THEN /\ offLast' = [op |-> "trigger_payout", oid |-> oid, code |-> 200,
                           body |-> "stored sale", ans |-> NoAnswer]
            /\ UNCHANGED <<offPc, offRequests>>
       ELSE IF ~Truthy(sales[oid].iban) \/ ~Truthy(sales[oid].beneficiary_name)
       THEN /\ offLast' = [op |-> "trigger_payout", oid |-> oid, code |-> 400,
                           body |-> "missing fields", ans |-> NoAnswer]
            /\ UNCHANGED <<offPc, offRequests>>
       ELSE /\ offPc' = [offPc EXCEPT ![r] = [op |-> "await_payout", oid |-> oid]]
            /\ offRequests' = offRequests + 1
            /\ offLast' = [op |-> "trigger_payout", oid |-> oid, code |-> 0,
                           body |-> "pending", ans |-> NoAnswer]
    /\ UNCHANGED <<otc_listings, sales, offPayouts, offNextId, mainVars, ipnVars, libVars,
                                        netVars>>

\* The answers offramp.py tells apart.
OffAnswers ==
    {NoAnswer}
    \cup [raised : {FALSE}, status : {200, 201}, shape : BodyShapes]
    \cup [raised : {FALSE}, status : {202, 404, 500}, shape : {"empty"}]

(***************************************************************************)
(* trigger_payout after _call_nowpayments_payout returned `ans`: without a *)
(* payout id the answer is 502; otherwise the UPDATE of the sale and the   *)
(* commit, which may fail.                                                 *)
(***************************************************************************)
SaleAfterPayout(sale, payout_id) ==
    [sale EXCEPT !.nowpayments_payout_id = payout_id, !.status = "payout_pending"]

OffPersist(r, oid, ans, commitOk) ==
    LET payout_id == OffPayoutId(ans, offNextId)
    IN  IF payout_id = NoRef
        THEN /\ sales' = sales
             /\ offLast' = [op |-> "trigger_payout", oid |-> oid, code |-> 502,
                            body |-> "no payout_id", ans |-> ans]
        ELSE IF commitOk
        THEN /\ sales' = [sales EXCEPT ![oid] = SaleAfterPayout(@, payout_id)]
             /\ offLast' = [op |-> "trigger_payout", oid |-> oid, code |-> 200,
                            body |-> "updated sale", ans |-> ans]
        ELSE /\ sales' = sales
             /\ offLast' = [op |-> "trigger_payout", oid |-> oid, code |-> 500,
                            body |-> "commit failed", ans |-> ans]

\* OffPayoutFailed with a fault: the sale is marked 'failed' when the
\* provider call fails.
OffPayoutFailedMarks(r, oid, ans) ==
    /\ sales' = [sales EXCEPT ![oid].status = "failed"]
    /\ offLast' = [op |-> "trigger_payout", oid |-> oid, code |-> 502,
                   body |-> "payout error", ans |-> ans]

\* trigger_payout, except branches: the provider call failed, the sale is left alone.
OffPayoutFailed(r, oid, ans) ==
    /\ sales' = sales
    /\ offLast' = [op |-> "trigger_payout", oid |-> oid, code |-> 502,
                   body |-> "payout error", ans |-> ans]

(***************************************************************************)
(* _call_nowpayments_payout, first await: the answer to POST /payout.      *)
(* 200/201 returns it; a transport error leaves the function; anything     *)
(* else sends the same payload to /payouts.                                *)
(***************************************************************************)
OffPayoutAnswer(r, ans, commitOk) ==
    LET oid == offPc[r].oid
    IN  /\ offPc[r].op = "await_payout"
        /\ offPayouts' = IF ProviderAccepted(ans)
                         THEN [offPayouts EXCEPT ![oid] = @ + 1] ELSE offPayouts
        /\ offNextId' = IF ProviderAccepted(ans) THEN offNextId + 1 ELSE offNextId
        /\ IF PayoutOk(ans)
           THEN /\ OffPersist(r, oid, ans, commitOk)
                /\ offPc' = [offPc EXCEPT ![r] = Idle]
                /\ UNCHANGED offRequests
           ELSE IF ans.raised
           THEN /\ OffPayoutFailed(r, oid, ans)
                /\ offPc' = [offPc EXCEPT ![r] = Idle]
                /\ UNCHANGED offRequests
           ELSE /\ offPc' = [offPc EXCEPT ![r] = [op |-> "await_payouts", oid |-> oid,
                                                   first |-> ans.status]]
                /\ offRequests' = offRequests + 1
                /\ UNCHANGED <<sales, offLast>>
        /\ UNCHANGED <<otc_listings, offCalls, mainVars, ipnVars, libVars, netVars>>

(***************************************************************************)
(* _call_nowpayments_payout, second await: the answer to POST /payouts.    *)
(***************************************************************************)
OffPayoutsAnswer(r, ans, commitOk) ==
    LET oid == offPc[r].oid
    IN  /\ offPc[r].op = "await_payouts"
        /\ offPayouts' = IF ProviderAccepted(ans)
                         THEN [offPayouts EXCEPT ![oid] = @ + 1] ELSE offPayouts
        /\ offNextId' = IF ProviderAccepted(ans) THEN offNextId + 1 ELSE offNextId
        /\ IF PayoutOk(ans)
           THEN OffPersist(r, oid, ans, commitOk)
           ELSE OffPayoutFailed(r, oid, ans)
        /\ offPc' = [offPc EXCEPT ![r] = Idle]
        /\ UNCHANGED <<otc_listings, offRequests, offCalls, mainVars, ipnVars, libVars, netVars>>

\* The answer and the commit outcome the environment picks: the commit is
\* reached only with a payout id in a 200/201 answer.
OffEnvs ==
    {[ans |-> a, commitOk |-> TRUE] : a \in OffAnswers}
    \cup {[ans |-> a, commitOk |-> FALSE] :
            a \in {x \in OffAnswers : PayoutOk(x) /\ x.shape \in {"id", "withdrawals"}}}

SaleInputs == {<<"IT60X", "Mario Rossi">>, <<"", "Mario Rossi">>, <<"IT60X", "">>}

NextOfframp ==
    \/ \E sym \in SymbolsIn, p \in {2, 5} : OffSetPrice(sym, p, 3)
    \/ \E sym \in SymbolsIn, who \in SaleInputs : OffCreateOrder(sym, who[1], who[2])
    \/ \E r \in Slots, oid \in 1..(MaxOrders + 1) : OffTrigger(r, oid)
    \/ \E r \in Slots, env \in OffEnvs : OffPayoutAnswer(r, env.ans, env.commitOk)
    \/ \E r \in Slots, env \in OffEnvs : OffPayoutsAnswer(r, env.ans, env.commitOk)

(***************************************************************************)
(* services/api/routers/nowpayments.py: the IPN handler.  The order store  *)
(* (_get_order, _update_order) lives in a variant of offramp.py that is    *)
(* not part of the sources; it is modelled as a table of orders with the   *)
(* two columns the handler touches.                                        *)
(***************************************************************************)
\* The rows trigger-payout leaves behind: a sale not paid out yet, and a
\* sale whose payout was created (offramp.py, trigger_payout).
IpnStoredOrders ==
    {[status |-> "created", nowpayments_payout_id |-> NoRef],
     [status |-> "payout_pending", nowpayments_payout_id |-> 1]}

IpnInit ==
    /\ ipnSecret \in {"", "ipn_secret"}
    /\ ipnOrders \in [OrderIds -> IpnStoredOrders]
    /\ ipnGets = 0
    /\ ipnLast = [op |-> "none"]
    /\ ipnCalls = 0

\* _get_order(order_id): the stored order; an unknown id raises.
GetOrder(order_id) == ipnOrders[order_id]

\* _update_order(order_id, nowpayments_payout_id=...) on a store.
UpdateOrderPayoutId(store, order_id, payout_id) ==
    [store EXCEPT ![order_id].nowpayments_payout_id = payout_id]

\* _update_order(order_id, status=...) on a store.
UpdateOrderStatus(store, order_id, status) ==
    [store EXCEPT ![order_id].status = status]

\* _secure_compare: hmac.compare_digest on the two strings as they are.
SecureCompare(a, b) == a = b

\* _compute_sig: "" (here <<>>) without a secret, else the hex HMAC-SHA256.
ComputeSig(secret, raw) ==
    IF secret = "" THEN <<>> ELSE <<HmacHex("sha256", secret, raw)>>

\* IpnSignatureOk with a fault: the digests are lower-cased before they are
\* compared.
IpnSignatureOkAnyCase(secret, raw, sig) ==
    /\ ComputeSig(secret, raw) # <<>>
    /\ sig # <<>>
    /\ LowerHex(ComputeSig(secret, raw)[1]) = LowerHex(sig[1])

\* nowpayments_ipn: `not calc or not x_nowpayments_sig or not _secure_compare(...)`
\* is the 401.
IpnSignatureOk(secret, raw, sig) ==
    /\ ComputeSig(secret, raw) # <<>>
    /\ sig # <<>>
    /\ SecureCompare(ComputeSig(secret, raw), sig)

\* payout_id = str(payload.get("payout_id", "")) or str(payload.get("id", ""))
IpnPayoutId(raw) == IF raw.payout_id # NoRef THEN raw.payout_id ELSE raw.id

\* nowpayments_ipn: the payout id is stored when the order has none.
IpnStoresPayoutId(order, payout_id) ==
    payout_id # NoRef /\ order.nowpayments_payout_id = NoRef

\* IpnCompletes with a fault: payout_status is compared as it is.
IpnCompletesExact(payout_status) == payout_status = "finished"

\* nowpayments_ipn: payout_status is lower-cased and compared with "finished".
IpnCompletes(payout_status) == Lower(payout_status) = "finished"

(***************************************************************************)
(* POST /offramp/webhooks/nowpayments.  raw.json tells whether the body    *)
(* parses; raw.order_id is extra.order_id, 0 when absent.                  *)
(***************************************************************************)
NowpaymentsIpn(raw, sig) ==
    LET code == IF ipnSecret = "" THEN 500
                ELSE IF ~IpnSignatureOk(ipnSecret, raw, sig) THEN 401
                ELSE IF ~raw.json THEN 400
                ELSE IF raw.order_id = 0 THEN 422
                ELSE IF raw.order_id \notin DOMAIN ipnOrders THEN 404
                ELSE 200
        oid == raw.order_id
        payout_id == IpnPayoutId(raw)
        s1 == IF IpnStoresPayoutId(GetOrder(oid), payout_id)
              THEN UpdateOrderPayoutId(ipnOrders, oid, payout_id)
              ELSE ipnOrders
        s2 == IF IpnCompletes(raw.payout_status)
              THEN UpdateOrderStatus(s1, oid, "completed")
              ELSE s1
    IN  /\ ipnCalls < MaxIpnCalls
        /\ ipnCalls' = ipnCalls + 1
        /\ ipnOrders' = IF code = 200 THEN s2 ELSE ipnOrders
        /\ ipnGets' = IF code \in {200, 404} THEN ipnGets + 1 ELSE ipnGets
        /\ ipnLast' = [op |-> "ipn", raw |-> raw, sig |-> sig, code |-> code]
        /\ UNCHANGED <<ipnSecret, mainVars, offVars, libVars, netVars>>

MalformedBody ==
    [json |-> FALSE, payout_id |-> NoRef, id |-> NoRef, payout_status |-> "",
     order_id |-> 0]

IpnBodies ==
    [json : {TRUE}, payout_id : {NoRef, 2}, id : {NoRef, 3},
     payout_status : {"finished", "FINISHED", "Finished", "failed", ""},
     order_id : 0..(MaxOrders + 1)]
    \cup {MalformedBody}

FinishedBody ==
    [json |-> TRUE, payout_id |-> 2, id |-> NoRef, payout_status |-> "finished",
     order_id |-> 1]

\* The signature NOWPayments sends, and the ones that are not it: no header,
\* the same digest in upper case, digests under another key or algorithm.
IpnProviderSig(raw) == <<HmacHex("sha256", "ipn_secret", raw)>>

IpnBadSignaturesFor(raw) ==
    {<<>>,
     <<UpperHex(HmacHex("sha256", "ipn_secret", raw))>>,
     <<HmacHex("sha256", "guess", raw)>>,
     <<HmacHex("sha512", "ipn_secret", raw)>>}

\* Signed requests with every body; badly signed ones with two bodies (the
\* handler does not look into the body before the signature check).
IpnRequests ==
    {<<raw, IpnProviderSig(raw)>> : raw \in IpnBodies}
    \cup {<<raw, sig>> : raw \in {MalformedBody, FinishedBody},
                         sig \in IpnBadSignaturesFor(FinishedBody)
                                  \cup IpnBadSignaturesFor(MalformedBody)}

NextIpn ==
    \E req \in IpnRequests : NowpaymentsIpn(req[1], req[2])

(***************************************************************************)
(* services/api/services/nowpayments.py: NowPaymentsClient.  An answer is  *)
(* a transport error (raised) or an HTTP status.                           *)
(***************************************************************************)
BankAnswers ==
    {[raised |-> TRUE, status |-> 0]}
    \cup [raised : {FALSE}, status : {200, 201, 400, 404, 405, 422, 500}]

\* _post_json raises NowPaymentsError on status >= 400.
PostJsonRaises(ans) == ans.status >= 400

\* BankFallsBack with a fault: every NowPaymentsError leads to /payouts.
BankFallsBackAlways(status) == status >= 400

\* create_bank_payout: `if e.status in (404, 405, 422)`.
BankFallsBack(status) == status \in {404, 405, 422}

\* create_bank_payout is called: the withdrawal is posted to /payout.
BankCreatePayout ==
    /\ bankPc = Idle
    /\ Len(bankLog) < MaxBankCalls
    /\ bankPc' = [op |-> "await", sent |-> <<"/payout">>, answers |-> <<>>]
    /\ UNCHANGED <<bankLog, listingsMem, otcLast, otcCalls, cmpCall, mainVars, offVars, ipnVars,
                                        netVars>>

(***************************************************************************)
(* The answer to the request in flight.  A transport error leaves the      *)
(* method with httpx's exception; a status < 400 returns the body; a       *)
(* NowPaymentsError from /payout with 404, 405 or 422 posts the same       *)
(* payload to /payouts; every other NowPaymentsError leaves the method.    *)
(***************************************************************************)
BankAnswer(ans) ==
    LET answers == Append(bankPc.answers, ans)
        finished(outcome) ==
            /\ bankPc' = Idle
            /\ bankLog' = Append(bankLog, [sent |-> bankPc.sent, answers |-> answers,
                                           outcome |-> outcome])
    IN  /\ bankPc.op = "await"
        /\ IF ans.raised THEN finished("transport error")
           ELSE IF ~PostJsonRaises(ans) THEN finished("returned")
           ELSE IF Len(bankPc.sent) = 1 /\ BankFallsBack(ans.status)
           THEN /\ bankPc' = [op |-> "await", sent |-> Append(bankPc.sent, "/payouts"),
                              answers |-> answers]
                /\ bankLog' = bankLog
           ELSE finished("NowPaymentsError")
        /\ UNCHANGED <<listingsMem, otcLast, otcCalls, cmpCall, mainVars, offVars, ipnVars, netVars>>

NextBank ==
    \/ BankCreatePayout
    \/ \E ans \in BankAnswers : BankAnswer(ans)

(***************************************************************************)
(* services/api/routers/otc.py with the in-memory storage.                 *)
(***************************************************************************)
\* POST /otc/set-price (otc.py): _set_price.
OtcSetPrice(sym, price_eur, available_amount) ==
    LET token == Upper(sym)
        row == [price_eur |-> price_eur, available_amount |-> available_amount]
    IN  /\ otcCalls < MaxOtcCalls
        /\ otcCalls' = otcCalls + 1
        /\ listingsMem' = Upsert(listingsMem, token, row)
        /\ otcLast' = [op |-> "set_price", sym |-> sym, price_eur |-> price_eur,
                       available_amount |-> available_amount, token |-> token]
        /\ UNCHANGED <<bankPc, bankLog, cmpCall, mainVars, offVars, ipnVars, netVars>>

(***************************************************************************)
(* The cost of the three signature checks, in character comparisons.  Hex  *)
(* strings are sequences over two characters; the computed digest has      *)
(* MaxSigLen characters, the received signature has any length up to that. *)
(* hmac.compare_digest is the standard library's: it compares every        *)
(* character of the received string, and it raises TypeError on a str that *)
(* is not ASCII.                                                           *)
(***************************************************************************)
HexChars == {"a", "b"}

Digests == [1..MaxSigLen -> HexChars]

Signatures == UNION {[1..n -> HexChars] : n \in 0..MaxSigLen}

\* hmac.compare_digest(a, b): result and comparisons made.
CompareDigestCost(a, b) == [result |-> a = b, steps |-> Len(b)]

\* The fallback loop with a fault: it returns at the first difference.
FallbackLoopEarlyExit(a, b) ==
    IF Len(a) # Len(b)
    THEN [result |-> FALSE, steps |-> 0]
    ELSE LET diff == {i \in 1..Len(a) : a[i] # b[i]}
         IN  IF diff = {}
             THEN [result |-> TRUE, steps |-> Len(a)]
             ELSE [result |-> FALSE,
                   steps |-> CHOOSE i \in diff : \A j \in diff : i <= j]

(***************************************************************************)
(* _secure_compare, except branch: False at once on different lengths,     *)
(* else `result |= x ^ y` for every pair of zip(a, b), without break.      *)
(***************************************************************************)
FallbackLoop(a, b) ==
    IF Len(a) # Len(b)
    THEN [result |-> FALSE, steps |-> 0]
    ELSE [result |-> \A i \in 1..Len(a) : a[i] = b[i],
          steps |-> Cardinality({i \in 1..Len(a) : i <= Len(b)})]

\* _secure_compare(a, b): compare_digest, or the loop when that raises.
SecureCompareCost(a, b, ascii) ==
    IF ascii THEN CompareDigestCost(a, b) ELSE FallbackLoop(a, b)

\* verify_hmac_sha256 and verify_nowpayments_signature: False at once on an
\* empty signature, else compare_digest(expected, signature); the lower() of
\* main.py visits every character of both strings before that.
VerifyCost(expected, signature) ==
    IF signature = <<>>
    THEN [result |-> FALSE, steps |-> 0]
    ELSE CompareDigestCost(expected, signature)

CostOf(fn, expected, signature, ascii) ==
    IF fn = "_secure_compare"
    THEN SecureCompareCost(expected, signature, ascii)
    ELSE VerifyCost(expected, signature)

\* One of the three functions is applied to a computed digest and a received
\* signature.
Compare(fn, expected, signature, ascii) ==
    /\ cmpCall' = [fn |-> fn, expected |-> expected, signature |-> signature,
                   ascii |-> ascii, cost |-> CostOf(fn, expected, signature, ascii)]
    /\ UNCHANGED <<bankPc, bankLog, listingsMem, otcLast, otcCalls, mainVars, offVars,
                   ipnVars, netVars>>

NextCompare ==
    \E fn \in {"verify_hmac_sha256", "verify_nowpayments_signature", "_secure_compare"},
       expected \in Digests, signature \in Signatures, ascii \in BOOLEAN :
        /\ (fn # "_secure_compare") => ascii
        /\ Compare(fn, expected, signature, ascii)

LibInit ==
    /\ bankPc = Idle
    /\ bankLog = <<>>
    /\ listingsMem = <<>>
    /\ otcLast = [op |-> "none"]
    /\ otcCalls = 0
    /\ cmpCall = [fn |-> "none"]

\* The IPN router is not mounted: its variables stay as they are.
IpnUnused ==
    /\ ipnSecret = ""
    /\ ipnOrders = <<>>
    /\ ipnGets = 0
    /\ ipnLast = [op |-> "none"]
    /\ ipnCalls = 0

\* No webhook request has arrived.
NetInit == inbox = {} /\ arrived = {}

Init == MainInit /\ OffInit /\ IpnUnused /\ LibInit /\ NetInit

InitIpn == MainInit /\ OffInit /\ IpnInit /\ LibInit /\ NetInit

\* nowpayments.py handling IPN requests.
SpecIpn == InitIpn /\ [][NextIpn]_vars

\* offramp.py serving listings, sales and payouts.
SpecOfframp == Init /\ [][NextOfframp]_vars

NextListing ==
    \/ \E sym \in SymbolsIn, p \in PricesIn, a \in AmountsIn,
          w \in {None, ""} \cup Wallets :
           SetPrice(sym, p, a, w)
    \/ \E req \in {<<ListingBody(st, tx, sym), ProviderSig(ListingBody(st, tx, sym))>> :
                     st \in {"finished", "failed"}, tx \in {9}, sym \in {"neno", "XYZ"}} :
           Webhook(req[1], req[2])

\* main.py serving set-price requests and the provider's reports on listings.
SpecListing == Init /\ [][NextListing]_vars

NextWebhook ==
    \/ \E payload \in OrderInputs : CreateOrder(payload)
    \/ SetPrice("neno", 2, <<3>>, None)
    \/ \E req \in SignatureWebhooks : Webhook(req[1], req[2])

\* main.py receiving webhook requests under every kind of signature.
SpecWebhook == Init /\ [][NextWebhook]_vars

Next ==
    \/ \E payload \in OrderInputs : CreateOrder(payload)
    \/ \E oid \in 1..(MaxOrders + 1), payload \in PayoutInputs : TriggerPayout(oid, payload)
    \/ TriggerCommit
    \/ \E req \in LifecycleWebhooks : Webhook(req[1], req[2])

\* main.py serving the life of orders: creation, payout, the provider's reports.
Spec == Init /\ [][Next]_vars

(***************************************************************************)
(* trigger-payout in both variants.  A deployment runs one variant: the    *)
(* first request decides which of the two is serving.                      *)
(***************************************************************************)
MainServing == offCalls = 0 /\ otcCalls = 0

OfframpServing == nCalls = 0 /\ otcCalls = 0

OtcServing == nCalls = 0 /\ offCalls = 0

NextPayout ==
    \/ MainServing /\ \E payload \in OrderInputs : CreateOrder(payload)
    \/ MainServing /\ \E oid \in 1..(MaxOrders + 1), payload \in PayoutInputs :
                         TriggerPayout(oid, payload)
    \/ MainServing /\ TriggerCommit
    \/ MainServing /\ \E req \in LifecycleWebhooks : Webhook(req[1], req[2])
    \/ OfframpServing /\ \E sym \in SymbolsIn, p \in {2, 5} : OffSetPrice(sym, p, 3)
    \/ OfframpServing /\ \E sym \in SymbolsIn, who \in SaleInputs :
                            OffCreateOrder(sym, who[1], who[2])
    \/ OfframpServing /\ \E r \in Slots, oid \in 1..(MaxOrders + 1) : OffTrigger(r, oid)
    \/ OfframpServing /\ \E r \in Slots, env \in OffEnvs :
                            OffPayoutAnswer(r, env.ans, env.commitOk)
    \/ OfframpServing /\ \E r \in Slots, env \in OffEnvs :
                            OffPayoutsAnswer(r, env.ans, env.commitOk)

SpecPayout == Init /\ [][NextPayout]_vars

(***************************************************************************)
(* set-price in the three variants that keep listings; a deployment runs   *)
(* one of them.                                                            *)
(***************************************************************************)
NextSetPrice ==
    \/ MainServing /\ \E sym \in SymbolsIn, p \in PricesIn, a \in AmountsIn,
                          w \in {None, ""} \cup Wallets : SetPrice(sym, p, a, w)
    \/ MainServing /\ \E sym \in {"neno", "XYZ"} :
                         Webhook(ListingBody("finished", 9, sym),
                                 ProviderSig(ListingBody("finished", 9, sym)))
    \/ OfframpServing /\ \E sym \in SymbolsIn, p \in {2, 5} : OffSetPrice(sym, p, 3)
    \/ OtcServing /\ \E sym \in SymbolsIn, p \in {2, 5}, a \in {0, 3} : OtcSetPrice(sym, p, a)

SpecSetPrice == Init /\ [][NextSetPrice]_vars

\* The signature checks applied to digests and received signatures.
SpecCompare == Init /\ [][NextCompare]_vars

\* NowPaymentsClient.create_bank_payout called again and again.
SpecBank == Init /\ [][NextBank]_vars

(***************************************************************************)
(* Status reconciliation: orders are created and paid out, and reports     *)
(* about order 1 arrive and are handled.  A report is sent by NOWPayments  *)
(* with its signature, or by anyone else with a digest made under another  *)
(* key.                                                                    *)
(***************************************************************************)
ReportStatuses == {"finished", "failed", "canceled"}

ProviderReport(st, oid) == OrderBody(st, IF st = "finished" THEN 9 ELSE NoRef, oid)

ReconcileRequests ==
    {<<ProviderReport(st, 1), ProviderSig(ProviderReport(st, 1))>> : st \in ReportStatuses}
    \cup {<<ProviderReport("finished", 1),
             <<HmacHex("sha512", "guess", ProviderReport("finished", 1))>>>>}

NextReconcile ==
    \/ \E payload \in OrderInputs : CreateOrder(payload)
    \/ \E payload \in {p \in PayoutInputs : p.method = "crypto" /\ p.has_amount} :
          TriggerPayout(1, payload)
    \/ TriggerCommit
    \/ \E req \in ReconcileRequests : Deliver(req)
    \/ \E req \in ReconcileRequests : HandleDelivered(req)

\* Every trigger-payout request that waits for its commit is finished, and
\* every webhook request that arrived is handled.
FairReconcile ==
    /\ WF_vars(TriggerCommit)
    /\ \A req \in ReconcileRequests : SF_vars(HandleDelivered(req))

SpecReconcile == Init /\ [][NextReconcile]_vars /\ FairReconcile

NextProvider ==
    \/ \E payload \in OrderInputs : CreateOrder(payload)
    \/ \E w \in {None, "w1"} : SetPrice("neno", 2, <<3>>, w)
    \/ \E oid \in 1..(MaxOrders + 1), payload \in PayoutInputs : TriggerPayout(oid, payload)
    \/ TriggerCommit

\* main.py serving the two endpoints that create payouts at NOWPayments.
SpecProvider == Init /\ [][NextProvider]_vars

(***************************************************************************)
(* Steps of main.py named by what the request was, not by how the handler  *)
(* classified it.                                                          *)
(***************************************************************************)
WebhookStep == mainLast'.op = "webhook" /\ nCalls' = nCalls + 1

\* The webhook_events table holds a row with this signature or this body hash.
MatchesStoredEvent(sig, raw) ==
    \E e \in webhookEvents : e.signature = sig \/ e.body_hash = Sha256Hex(raw)

\* The signature is the hex HMAC-SHA512 of the body under NP_IPN_SECRET, in
\* either letter case.
ProperlySigned(sig, raw) ==
    \/ sig = <<HmacHex("sha512", NP_IPN_SECRET, raw)>>
    \/ sig = <<UpperHex(HmacHex("sha512", NP_IPN_SECRET, raw))>>

(***************************************************************************)
(* C1 (as claimed): for any sequence of set-price calls, NOWPayments       *)
(* accepts at most one auto-payout per listing.                            *)
(***************************************************************************)
C1_AtMostOnePayoutPerListing ==
    \A t \in Tokens : npListingPayouts[t] <= 1

(***************************************************************************)
(* C4 (as claimed): a successful trigger-payout leaves the order 'queued', *)
(* and a queued order leaves 'queued' only by a webhook with status        *)
(* 'finished' for that order, which makes it 'completed'.                  *)
(***************************************************************************)
TriggerSucceeds ==
    mainPc.op = "trigger_commit" /\ mainLast'.op = "trigger_payout" /\ mainLast'.code = 200

C9_NoTransitionGuard ==
    [][(/\ WebhookStep
        /\ ProperlySigned(mainLast'.sig, mainLast'.raw)
        /\ ~MatchesStoredEvent(mainLast'.sig, mainLast'.raw)
        /\ WebhookOrderId(mainLast'.raw) \in DOMAIN orders)
       => LET o == WebhookOrderId(mainLast'.raw)
              st == mainLast'.raw.status
          IN  /\ st = "finished" => orders'[o].status = "completed"
              /\ st \in {"processing", "pending", "confirming"}
                    => orders'[o].status = "queued"
              /\ st \in {"failed", "canceled"} => orders'[o].status = "failed"]_vars

\* An order that was 'completed' (it carries the txid of a 'finished'
\* webhook) has been moved on by a later webhook.
C9_Witness ==
    /\ mainLast.op = "webhook"
    /\ mainLast.raw.status \in {"failed", "canceled", "processing", "pending", "confirming"}
    /\ \E o \in DOMAIN orders :
         /\ WebhookOrderId(mainLast.raw) = o
         /\ orders[o].payout_txid = 9
         /\ orders[o].status \in {"failed", "queued"}

(***************************************************************************)
(* Steps of offramp.py and nowpayments.py named by what the request was.   *)
(***************************************************************************)
OffTriggerStep == offCalls' = offCalls + 1 /\ offLast'.op = "trigger_payout"

IpnStep == ipnCalls' = ipnCalls + 1

\* The IPN handled in this step carries the hex HMAC-SHA256 of its body under
\* the configured secret.
IpnSigned ==
    /\ ipnSecret # ""
    /\ ipnLast'.sig = <<HmacHex("sha256", ipnSecret, ipnLast'.raw)>>

\* The IPN handled in this step is verified, parses and names a stored order.
IpnVerifiedForOrder ==
    /\ IpnStep
    /\ IpnSigned
    /\ ipnLast'.raw.json
    /\ ipnLast'.raw.order_id \in DOMAIN ipnOrders

(***************************************************************************)
(* C2: a trigger-payout for a sale whose status is neither 'created' nor   *)
(* 'failed' sends no request to NOWPayments, changes no row and returns    *)
(* the stored sale; and while no other trigger for it is in flight, a sale *)
(* in 'payout_pending' keeps its status and payout id and gets no further  *)
(* payout.                                                                 *)
(***************************************************************************)
C2_TriggerIdempotent ==
    [][/\ (/\ OffTriggerStep
           /\ offLast'.oid \in DOMAIN sales
           /\ sales[offLast'.oid].status \notin {"created", "failed"})
          => /\ offRequests' = offRequests
             /\ sales' = sales
             /\ offPayouts' = offPayouts
             /\ offPc' = offPc
             /\ offLast'.code = 200
             /\ offLast'.body = "stored sale"
       /\ \A oid \in DOMAIN sales :
            (/\ sales[oid].status = "payout_pending"
             /\ \A r \in Slots : offPc[r] = Idle \/ offPc[r].oid # oid)
            => /\ sales'[oid] = sales[oid]
               /\ offPayouts'[oid] = offPayouts[oid]
               /\ \A r \in Slots : offPc'[r] = Idle \/ offPc'[r].oid # oid]_vars

\* A sale paid out once has been triggered again and came back as stored.
C2_Witness ==
    /\ offLast.op = "trigger_payout"
    /\ offLast.body = "stored sale"
    /\ sales[offLast.oid].status = "payout_pending"
    /\ sales[offLast.oid].nowpayments_payout_id # NoRef
    /\ offPayouts[offLast.oid] = 1

(***************************************************************************)
(* C3: when a trigger-payout ends with the NOWPayments call failed (the    *)
(* transport raised, or the last answer was not 200/201; /payouts is only  *)
(* asked after /payout answered something else), the answer is an error    *)
(* and the sales table is as it was.                                       *)
(***************************************************************************)
C3_ProviderFailureLeavesSale ==
    [][\A r \in Slots :
         (/\ offPc[r] # Idle
          /\ offPc'[r] = Idle
          /\ (offLast'.ans.raised \/ offLast'.ans.status \notin {200, 201}))
         => /\ offLast'.code >= 400
            /\ sales' = sales]_vars

\* Both /payout and /payouts answered 404; the sale is still 'created' and
\* has no payout id.
C3_Witness ==
    /\ offLast.op = "trigger_payout"
    /\ offLast.code = 502
    /\ ~offLast.ans.raised
    /\ offLast.ans.status = 404
    /\ sales[offLast.oid].status = "created"
    /\ sales[offLast.oid].nowpayments_payout_id = NoRef

(***************************************************************************)
(* C5 (as claimed): a webhook delivery with the same raw body or the same  *)
(* signature as any earlier delivery is answered 'duplicate' and changes   *)
(* neither orders nor listings.                                            *)
(***************************************************************************)
C5_DuplicateOfAnyDelivery ==
    [][(/\ WebhookStep
        /\ \E d \in delivered :
             \/ d.signature = mainLast'.sig
             \/ d.body_hash = Sha256Hex(mainLast'.raw))
       => /\ mainLast'.note = "duplicate"
          /\ orders' = orders
          /\ prices' = prices]_vars

(***************************************************************************)
(* C5 (amended): a webhook delivery whose signature or body hash is that   *)
(* of a stored WebhookEvent is answered 'duplicate' and changes neither    *)
(* orders nor listings nor events; so is a delivery with the same raw body *)
(* and the same signature as an earlier delivery.                          *)
(***************************************************************************)
C5_DuplicateOfStoredEvent ==
    [][(/\ WebhookStep
        /\ \/ MatchesStoredEvent(mainLast'.sig, mainLast'.raw)
           \/ [signature |-> mainLast'.sig,
               body_hash |-> Sha256Hex(mainLast'.raw)] \in delivered)
       => /\ mainLast'.note = "duplicate"
          /\ orders' = orders
          /\ prices' = prices
          /\ webhookEvents' = webhookEvents]_vars

\* The provider's 'finished' report on an order has been delivered again
\* after it completed the order, and was answered 'duplicate'.
C5_Witness ==
    /\ mainLast.op = "webhook"
    /\ mainLast.note = "duplicate"
    /\ mainLast.sig = ProviderSig(mainLast.raw)
    /\ mainLast.raw.status = "finished"
    /\ WebhookOrderId(mainLast.raw) \in DOMAIN orders
    /\ orders[WebhookOrderId(mainLast.raw)].status = "completed"
    /\ [signature |-> mainLast.sig, body_hash |-> Sha256Hex(mainLast.raw)]
          \in webhookEvents

(***************************************************************************)
(* C6: an IPN whose signature header is not the hex HMAC-SHA256 of the raw *)
(* body under the configured secret (or that arrives when no secret is     *)
(* configured) is answered 401 (500 without a secret); no order is read    *)
(* and no order is written.                                                *)
(***************************************************************************)
C6_SignatureBeforeAnything ==
    [][(IpnStep /\ ~IpnSigned)
       => /\ ipnLast'.code = IF ipnSecret = "" THEN 500 ELSE 401
          /\ ipnOrders' = ipnOrders
          /\ ipnGets' = ipnGets]_vars

\* An IPN naming order 1 as finished, signed with the right digest in upper
\* case, was answered 401 and order 1 is not completed.
C6_Witness ==
    /\ ipnLast.op = "ipn"
    /\ ipnLast.code = 401
    /\ ipnLast.raw = FinishedBody
    /\ ipnLast.sig = <<UpperHex(HmacHex("sha256", ipnSecret, FinishedBody))>>
    /\ ipnOrders[1].status # "completed"
    /\ ipnGets = 0

(***************************************************************************)
(* C7: a verified IPN naming a stored order sets the order's status to     *)
(* 'completed' when payout_status is 'finished' in any letter case, and    *)
(* leaves the status as it was for any other payout_status; the other      *)
(* orders are untouched.                                                   *)
(***************************************************************************)
C7_FinishedCompletes ==
    [][IpnVerifiedForOrder
       => LET oid == ipnLast'.raw.order_id
          IN  /\ ipnOrders'[oid].status =
                    IF ipnLast'.raw.payout_status \in {"finished", "FINISHED", "Finished"}
                    THEN "completed"
                    ELSE ipnOrders[oid].status
              /\ \A other \in DOMAIN ipnOrders \ {oid} :
                    ipnOrders'[other] = ipnOrders[other]]_vars

\* An IPN with payout_status 'FINISHED' has completed its order.
C7_Witness ==
    /\ ipnLast.op = "ipn"
    /\ ipnLast.code = 200
    /\ ipnLast.raw.payout_status = "FINISHED"
    /\ ipnOrders[ipnLast.raw.order_id].status = "completed"

(***************************************************************************)
(* C8 (as claimed): after a verified IPN that carries a payout_id (or id)  *)
(* and names a stored order, the order's nowpayments_payout_id is the      *)
(* payout id of that IPN.                                                  *)
(***************************************************************************)
C8_AlwaysSavesPayoutId ==
    [][(/\ IpnVerifiedForOrder
        /\ (ipnLast'.raw.payout_id # NoRef \/ ipnLast'.raw.id # NoRef))
       => ipnOrders'[ipnLast'.raw.order_id].nowpayments_payout_id =
             IF ipnLast'.raw.payout_id # NoRef
             THEN ipnLast'.raw.payout_id
             ELSE ipnLast'.raw.id]_vars

(***************************************************************************)
(* C10: in both variants the order row changes in a trigger-payout only    *)
(* after the payout request was sent and NOWPayments accepted it, and no   *)
(* request is sent in the step that persists; when the commit fails after  *)
(* the provider accepted, the answer is a 500, the order rows are as they  *)
(* were, the accepted payout stands and nothing more is sent to            *)
(* NOWPayments.                                                            *)
(***************************************************************************)
C10_ProviderBeforePersist ==
    [][/\ (mainLast'.op = "trigger_payout" /\ orders' # orders)
          => /\ npOrderPayouts[mainLast'.oid] >= 1
             /\ npRequests >= 1
             /\ npRequests' = npRequests
       /\ npRequests' # npRequests => orders' = orders
       /\ (mainPc.op = "trigger_commit" /\ ~mainPc.commitOk)
          => /\ mainLast'.code = 500
             /\ orders' = orders
             /\ npOrderPayouts[mainPc.oid] >= 1
             /\ npOrderPayouts' = npOrderPayouts
             /\ npRequests' = npRequests
       /\ sales' # sales /\ offLast'.op = "trigger_payout"
          => /\ offPayouts'[offLast'.oid] >= 1
             /\ offRequests >= 1
             /\ offRequests' = offRequests
       /\ offRequests' # offRequests => sales' = sales
       /\ (offLast' # offLast /\ offLast'.op = "trigger_payout" /\ offLast'.code = 500)
          => /\ sales' = sales
             /\ offPayouts'[offLast'.oid] >= 1
             /\ offRequests' = offRequests]_vars

\* NOWPayments accepted the payout of an order, the commit failed, and the
\* order is still 'created' without a payout reference.
C10_Witness ==
    /\ mainLast.op = "trigger_payout"
    /\ mainLast.code = 500
    /\ "committed" \in DOMAIN mainLast
    /\ mainPc = Idle
    /\ npOrderPayouts[mainLast.oid] = 1
    /\ orders[mainLast.oid].status = "created"
    /\ orders[mainLast.oid].payout_txid = NoRef
    /\ triggered = {}

C12_BankPayoutFallback ==
    \A i \in DOMAIN bankLog :
        LET c == bankLog[i]
        IN  /\ c.sent \in {<<"/payout">>, <<"/payout", "/payouts">>}
            /\ Len(c.answers) = Len(c.sent)
            /\ Len(c.sent) = 2 <=> (~c.answers[1].raised /\ c.answers[1].status \in {404, 405, 422})
            /\ (/\ ~c.answers[1].raised
                /\ c.answers[1].status >= 400
                /\ c.answers[1].status \notin {404, 405, 422})
               => c.outcome = "NowPaymentsError" /\ Len(c.sent) = 1
            /\ c.outcome = "returned"
               <=> (/\ ~c.answers[Len(c.answers)].raised
                    /\ c.answers[Len(c.answers)].status < 400)

\* /payout answered 404, /payouts was asked and answered 201: the call
\* returned after two requests.
C12_Witness ==
    \E i \in DOMAIN bankLog :
        /\ bankLog[i].sent = <<"/payout", "/payouts">>
        /\ bankLog[i].answers[1].status = 404
        /\ bankLog[i].answers[2].status = 201
        /\ bankLog[i].outcome = "returned"

(***************************************************************************)
(* C13: within one call of _call_nowpayments_payout the /payouts request   *)
(* is sent only after /payout answered with a status other than 200 or     *)
(* 201, and nothing is sent after /payouts was answered (at most two       *)
(* requests per call); the call hands the body of the first answer with    *)
(* 200 or 201 to trigger_payout, and ends in the 502 'payout error' when   *)
(* the last answer was neither.                                            *)
(***************************************************************************)
C13_PayoutThenPayouts ==
    [][\A r \in Slots :
        /\ (offPc'[r] # offPc[r] /\ offPc'[r].op = "await_payouts")
           => /\ offPc[r].op = "await_payout"
              /\ offPc'[r].first \notin {200, 201}
              /\ offRequests' = offRequests + 1
        /\ (offPc'[r] # offPc[r] /\ offPc'[r].op = "await_payout")
           => offPc[r] = Idle /\ offRequests' = offRequests + 1
        /\ (offPc[r] # Idle /\ offPc'[r] = Idle)
           => /\ offRequests' = offRequests
              /\ IF ~offLast'.ans.raised /\ offLast'.ans.status \in {200, 201}
                 THEN offLast'.body \in {"updated sale", "no payout_id", "commit failed"}
                 ELSE offLast'.code = 502 /\ offLast'.body = "payout error"]_vars

\* /payout answered 404 and /payouts 201: the sale was updated after two
\* requests.
C13_Witness ==
    /\ offLast.op = "trigger_payout"
    /\ offLast.body = "updated sale"
    /\ offLast.ans.status = 201
    /\ offRequests = 2
    /\ offPayouts[offLast.oid] = 1
    /\ \A r \in Slots : offPc[r] = Idle

(***************************************************************************)
(* C14: in every reachable state of main.py every stored order's status is *)
(* one of created, queued, completed, failed; and an order that has just   *)
(* been inserted has status 'created'.                                     *)
(***************************************************************************)
C14_OrderStatuses ==
    /\ [](\A o \in DOMAIN orders :
            orders[o].status \in {"created", "queued", "completed", "failed"})
    /\ [][Len(orders') # Len(orders)
          => /\ Len(orders') = Len(orders) + 1
             /\ orders'[Len(orders')].status = "created"
             /\ \A o \in DOMAIN orders : orders'[o] = orders[o]]_vars

\* One order has left 'created' by a payout or a webhook; a newer one
\* is still 'created'.
C14_Witness ==
    /\ Len(orders) = 2
    /\ orders[1].status \in {"queued", "completed", "failed"}
    /\ orders[2].status = "created"

\* A step in which main.py served a set-price request.
SetPriceStep == mainLast'.op = "set_price" /\ nCalls' = nCalls + 1

(***************************************************************************)
(* C15: a set-price call of main.py whose request carries no wallet        *)
(* address (absent or empty) sends no request to NOWPayments and marks no  *)
(* payout done, whatever the listing has stored.                           *)
(***************************************************************************)
C15_NoWalletNoPayout ==
    [][(SetPriceStep /\ mainLast'.wallet \in {None, ""})
       => /\ npRequests' = npRequests
          /\ npListingPayouts' = npListingPayouts
          /\ npNextId' = npNextId
          /\ mainLast'.code = 200
          /\ prices'[mainLast'.token].auto_payout_done =
                IF mainLast'.token \in DOMAIN prices
                THEN prices[mainLast'.token].auto_payout_done ELSE 0]_vars

\* A set-price call without wallet has left alone a listing that has a
\* stored wallet, a positive total and no payout done; nothing was sent.
C15_Witness ==
    /\ mainLast.op = "set_price"
    /\ mainLast.wallet \in {None, ""}
    /\ ~mainLast.sent
    /\ prices[mainLast.token].wallet_address \in Wallets
    /\ prices[mainLast.token].auto_payout_done = 0
    /\ prices[mainLast.token].price_eur * prices[mainLast.token].available_amount > 0
    /\ npListingPayouts[mainLast.token] = 0

\* The listing a symbol addresses, whatever its letter case.
FoldCase(sym) ==
    CASE sym \in {"neno", "Neno", "NENO"} -> "NENO"
      [] sym \in {"usdt", "USDT"} -> "USDT"

\* A set-price request (sym, price_eur, available_amount) took the listings
\* from `table` to `after`.
ListingSet(table, after, sym, price_eur, available_amount) ==
    /\ DOMAIN after = DOMAIN table \cup {FoldCase(sym)}
    /\ after[FoldCase(sym)].price_eur = price_eur
    /\ after[FoldCase(sym)].available_amount = available_amount
    /\ \A t \in DOMAIN table \ {FoldCase(sym)} : after[t] = table[t]

(***************************************************************************)
(* C16: in each variant a set-price call for a symbol leaves exactly one   *)
(* listing under the upper-cased symbol, holding the call's price_eur and  *)
(* available_amount (0 when main.py gets none); every other listing is     *)
(* as it was, and nothing but set-price changes the listings' keys, prices *)
(* or amounts.  Symbols that differ only in letter case are one listing.   *)
(***************************************************************************)
C16_SetPriceUpserts ==
    [][/\ IF SetPriceStep
          THEN ListingSet(prices, prices', mainLast'.sym, mainLast'.price_eur,
                          IF mainLast'.amount = <<>> THEN 0 ELSE mainLast'.amount[1])
          ELSE /\ DOMAIN prices' = DOMAIN prices
               /\ \A t \in DOMAIN prices :
                    /\ prices'[t].price_eur = prices[t].price_eur
                    /\ prices'[t].available_amount = prices[t].available_amount
       /\ IF offCalls' # offCalls /\ offLast'.op = "set_price"
          THEN ListingSet(otc_listings, otc_listings', offLast'.sym, offLast'.price_eur,
                          offLast'.available_amount)
          ELSE otc_listings' = otc_listings
       /\ IF otcCalls' # otcCalls
          THEN ListingSet(listingsMem, listingsMem', otcLast'.sym, otcLast'.price_eur,
                          otcLast'.available_amount)
          ELSE listingsMem' = listingsMem]_vars

\* otc.py has taken three set-price calls for 'neno' and 'NENO': one listing,
\* with the price and amount of the last call.
C16_Witness ==
    /\ otcCalls = 3
    /\ DOMAIN listingsMem = {"NENO"}
    /\ otcLast.sym = "neno"
    /\ otcLast.price_eur = 5
    /\ listingsMem["NENO"] = [price_eur |-> 5, available_amount |-> 0]

(***************************************************************************)
(* C17: a create-order call of offramp.py for a token without listing      *)
(* answers 404 and inserts no sale; for a token with a listing (in any     *)
(* letter case) it appends exactly one sale, with status 'created' and no  *)
(* nowpayments_payout_id, and answers with that sale's id; the sales       *)
(* stored before are as they were.                                         *)
(***************************************************************************)
C17_CreateOrder ==
    [][(offCalls' # offCalls /\ offLast'.op = "create_order")
       => IF FoldCase(offLast'.sym) \in DOMAIN otc_listings
          THEN /\ offLast'.code = 200
               /\ Len(sales') = Len(sales) + 1
               /\ offLast'.oid = Len(sales')
               /\ sales'[Len(sales')].status = "created"
               /\ sales'[Len(sales')].nowpayments_payout_id = NoRef
               /\ sales'[Len(sales')].token_symbol = FoldCase(offLast'.sym)
               /\ \A o \in DOMAIN sales : sales'[o] = sales[o]
          ELSE /\ offLast'.code = 404
               /\ sales' = sales]_vars

\* A create-order for 'neno' found the listing NENO and stored sale 1; a
\* create-order for a token without listing was then answered 404.
C17_Witness ==
    /\ offLast.op = "create_order"
    /\ offLast.code = 404
    /\ offLast.sym = "USDT"
    /\ DOMAIN otc_listings = {"NENO"}
    /\ Len(sales) = 1
    /\ sales[1].status = "created"
    /\ sales[1].nowpayments_payout_id = NoRef

(***************************************************************************)
(* C18: the number of character comparisons a signature check makes is     *)
(* the same for every received signature of the same length, wherever the  *)
(* first character differing from the computed digest is; and the check    *)
(* accepts exactly the signature equal to the digest.                      *)
(***************************************************************************)
C18_ConstantTime ==
    cmpCall.fn # "none" =>
        /\ cmpCall.cost.result = (cmpCall.signature = cmpCall.expected)
        /\ \A other \in Signatures :
             Len(other) = Len(cmpCall.signature) =>
                CostOf(cmpCall.fn, cmpCall.expected, other, cmpCall.ascii).steps
                   = cmpCall.cost.steps

\* _secure_compare went through its loop on a signature whose first character
\* already differs from the digest, and compared every character.
C18_Witness ==
    /\ cmpCall.fn = "_secure_compare"
    /\ ~cmpCall.ascii
    /\ Len(cmpCall.signature) = MaxSigLen
    /\ cmpCall.signature[1] # cmpCall.expected[1]
    /\ ~cmpCall.cost.result
    /\ cmpCall.cost.steps = MaxSigLen

(***************************************************************************)
(* C19 (as claimed): whatever the interleaving of the trigger-payout       *)
(* requests for a sale, NOWPayments accepts at most one payout for it, and *)
(* a payout id stored on the sale is the id of a payout NOWPayments        *)
(* accepted for it.                                                        *)
(***************************************************************************)
C19_AtMostOnePayoutPerSale ==
    \A oid \in DOMAIN sales :
        /\ offPayouts[oid] <= 1
        /\ sales[oid].nowpayments_payout_id # NoRef => offPayouts[oid] = 1

(***************************************************************************)
(* C20: a webhook request whose signature header is empty, or is not the   *)
(* hex HMAC-SHA512 of the raw body under NP_IPN_SECRET in either letter    *)
(* case, changes no order and no listing.                                  *)
(***************************************************************************)
C20_BadSignatureChangesNothing ==
    [][(WebhookStep /\ ~ProperlySigned(mainLast'.sig, mainLast'.raw))
       => /\ orders' = orders
          /\ prices' = prices]_vars

\* A report that order 1 is finished, signed under another key, was answered
\* 401 and the stored order 1 is as it was created.
C20_Witness ==
    /\ mainLast.op = "webhook"
    /\ mainLast.note = "401"
    /\ mainLast.raw = OrderBody("finished", 9, 1)
    /\ mainLast.sig = <<HmacHex("sha512", "guess", OrderBody("finished", 9, 1))>>
    /\ 1 \in DOMAIN orders
    /\ orders[1].status = "created"

\* The order status a report of this status stands for.
ReconciledStatus(st) == IF st = "finished" THEN "completed" ELSE "failed"

(***************************************************************************)
(* C21 (as claimed): when a report about order 1 with NOWPayments'         *)
(* signature and status 'finished' (or 'failed', 'canceled') arrives after *)
(* trigger-payout has succeeded for order 1, the order eventually has      *)
(* status 'completed' (or 'failed'), every request that arrived being      *)
(* handled.                                                                *)
(***************************************************************************)
C21_ReconciliationLive ==
    \A st \in ReportStatuses :
        (/\ <<ProviderReport(st, 1), ProviderSig(ProviderReport(st, 1))>> \in inbox
         /\ \E a \in arrived :
               /\ a.req = <<ProviderReport(st, 1), ProviderSig(ProviderReport(st, 1))>>
               /\ 1 \in a.paid)
        ~> (1 \in DOMAIN orders /\ orders[1].status = ReconciledStatus(st))
====
